---------------------------- MODULE Spec2Model ----------------------------
(* A model of webstore/web.py: the REST handlers index, sql, create,       *)
(* create_named, read, row, update and delete over one database, the query *)
(* translator _request_query, the row cursor adapter                       *)
(* _result_proxy_iterator and the WebstoreException control response.      *)
(* The table gateway (webstore.core) and the renderer (webstore.formats)   *)
(* are not part of web.py; they are modelled from the specification.       *)
EXTENDS Integers, Sequences, FiniteSets, TLC

VARIABLES
    db,       \* the database: table name -> table (exists, columns, rows)
    pc,       \* "idle": no request in progress; "done": a response was returned
    req,      \* the request handled last
    resp,     \* the response returned for it
    trace,    \* the gateway and renderer calls the handler made, in order
    before,   \* history: the database when the request handled last arrived
    dropped,  \* history: tables deleted and not re-created since
    created,  \* history: the non-empty rows of the body each table was created
              \* from and whether the body had empty rows, while the table is
              \* as that create request left it
    cpc,      \* concurrent create_named: each process's position
    creq,     \* concurrent create_named: each process's request
    cidx,     \* concurrent create_named: rows of the body already consumed
    cresp     \* concurrent create_named: each process's response

vars == <<db, pc, req, resp, trace, before, dropped, created, cpc, creq, cidx, cresp>>

-----------------------------------------------------------------------------
(* Bounds *)

MaxRows == 2    \* rows one table may hold
MaxBody == 3    \* rows in one request body

-----------------------------------------------------------------------------
(* Texts are sequences of one-character strings, so that int(), lower()   *)
(* and split(':', 1) are computed, not assumed.                           *)

Digits == <<"0", "1", "2", "3", "4", "5", "6", "7", "8", "9">>

Uppers == <<"A", "B", "C", "D", "E", "F", "G", "H", "I", "J", "K", "L", "M",
            "N", "O", "P", "Q", "R", "S", "T", "U", "V", "W", "X", "Y", "Z">>

Lowers == <<"a", "b", "c", "d", "e", "f", "g", "h", "i", "j", "k", "l", "m",
            "n", "o", "p", "q", "r", "s", "t", "u", "v", "w", "x", "y", "z">>

IsDigit(c) == \E k \in 1..Len(Digits) : Digits[k] = c

DigitVal(c) == (CHOOSE k \in 1..Len(Digits) : Digits[k] = c) - 1

RECURSIVE DigitsValue(_, _)
DigitsValue(s, acc) ==
    IF s = <<>> THEN acc
    ELSE DigitsValue(Tail(s), acc * 10 + DigitVal(Head(s)))

RECURSIVE LStrip(_)
LStrip(s) == IF s # <<>> /\ Head(s) = " " THEN LStrip(Tail(s)) ELSE s

RECURSIVE RStrip(_)
RStrip(s) ==
    IF s # <<>> /\ s[Len(s)] = " " THEN RStrip(SubSeq(s, 1, Len(s) - 1)) ELSE s

(* Python's int(text): surrounding blanks stripped, an optional sign, then *)
(* one or more decimal digits; anything else raises ValueError.            *)
int(text) ==
    LET s      == RStrip(LStrip(text))
        signed == s # <<>> /\ Head(s) \in {"-", "+"}
        body   == IF signed THEN Tail(s) ELSE s
        mag    == DigitsValue(body, 0)
    IN  IF body # <<>> /\ \A i \in 1..Len(body) : IsDigit(body[i])
        THEN [ok |-> TRUE,
              val |-> IF signed /\ Head(s) = "-" THEN 0 - mag ELSE mag]
        ELSE [ok |-> FALSE, val |-> 0]

(* Python's str(n) of an integer, used to write row ordinals into URLs.   *)
RECURSIVE str(_)
str(n) ==
    IF n < 0 THEN <<"-">> \o str(0 - n)
    ELSE IF n < 10 THEN <<Digits[n + 1]>>
    ELSE str(n \div 10) \o <<Digits[(n % 10) + 1]>>

lower(s) ==
    [i \in 1..Len(s) |->
        IF \E k \in 1..Len(Uppers) : Uppers[k] = s[i]
        THEN Lowers[CHOOSE k \in 1..Len(Uppers) : Uppers[k] = s[i]]
        ELSE s[i]]

HasColon(s) == \E i \in 1..Len(s) : s[i] = ":"

FirstColon(s) ==
    CHOOSE i \in 1..Len(s) : s[i] = ":" /\ \A j \in 1..(i - 1) : s[j] # ":"

(* sort.split(':', 1): the text before the first colon and the rest.      *)
split(s) ==
    LET i == FirstColon(s)
    IN  [order |-> SubSeq(s, 1, i - 1), column |-> SubSeq(s, i + 1, Len(s))]

-----------------------------------------------------------------------------
(* Optional values: None is the empty tuple, a value v is <<v>>.          *)

None == <<>>
Some(v) == <<v>>

-----------------------------------------------------------------------------
(* Data *)

TableOrder == <<"t">>
TableNames == {TableOrder[i] : i \in 1..Len(TableOrder)}

ColA == <<"a">>
ColB == <<"b">>
ColZ == <<"z">>            \* a column no request body ever carries
ColumnOrder == <<ColA, ColB>>
Columns == {ColumnOrder[i] : i \in 1..Len(ColumnOrder)}

NULL == 0                  \* SQL NULL; sorts before every value

EmptyRow == <<>>
Row(a, b) == (ColA :> a) @@ (ColB :> b)

(* The rows a request body may carry: column -> value mappings over a     *)
(* subset of the columns.                                                 *)
BodyRows == {EmptyRow, (ColA :> 2), Row(1, 1), Row(1, 2)}

Bodies == UNION {[1..n -> BodyRows] : n \in 0..MaxBody}

NoTable == [exists |-> FALSE, columns |-> <<>>, rows |-> <<>>]


-----------------------------------------------------------------------------
(* The table gateway, webstore.core (not in web.py): modelled from the    *)
(* specification's Table Gateway contract.                                *)

ColSet(tbl) == {tbl.columns[i] : i \in 1..Len(tbl.columns)}

Pad(r, cols) == [c \in cols |-> IF c \in DOMAIN r THEN r[c] ELSE NULL]

(* `table in db` *)
contains(d, table) == d[table].exists

(* `db[table]`: the handle of the table, which is created when absent.    *)
getitem(d, table) ==
    IF d[table].exists THEN d
    ELSE [d EXCEPT ![table] = [exists |-> TRUE, columns |-> <<>>, rows |-> <<>>]]

(* The table with the row's columns added to its schema.                  *)
ensure_columns(tbl, row) ==
    LET cols == tbl.columns \o
                SelectSeq(ColumnOrder,
                          LAMBDA c : c \in DOMAIN row /\ c \notin ColSet(tbl))
        cs   == {cols[i] : i \in 1..Len(cols)}
    IN  [tbl EXCEPT !.columns = cols,
                    !.rows = [i \in 1..Len(tbl.rows) |-> Pad(tbl.rows[i], cs)]]

(* addRow: appends one row; an empty row is skipped silently.             *)
add_row(tbl, row) ==
    IF DOMAIN row = {} THEN tbl
    ELSE LET t2 == ensure_columns(tbl, row)
         IN  [t2 EXCEPT !.rows = Append(t2.rows, Pad(row, ColSet(t2)))]

RowMatches(r, unique, row) ==
    \A c \in unique : c \in DOMAIN row /\ c \in DOMAIN r /\ r[c] = row[c]

(* upsertRow's update half: with no unique columns nothing is matched;    *)
(* otherwise the rows agreeing with `row` on the unique columns get all   *)
(* its other columns. Returns whether an update occurred.                 *)
update_row(tbl, unique, row) ==
    IF unique = {} \/ ~\E i \in 1..Len(tbl.rows) : RowMatches(tbl.rows[i], unique, row)
    THEN [found |-> FALSE, tbl |-> tbl]
    ELSE LET t2 == ensure_columns(tbl, row)
             upd(r) == [c \in ColSet(t2) |->
                          IF c \in DOMAIN row /\ c \notin unique THEN row[c] ELSE r[c]]
         IN  [found |-> TRUE,
              tbl |-> [t2 EXCEPT !.rows =
                          [i \in 1..Len(t2.rows) |->
                              IF RowMatches(t2.rows[i], unique, row)
                              THEN upd(t2.rows[i]) ELSE t2.rows[i]]]]

(* drop: deletes the table structure and all its data.                    *)
drop(tbl) == NoTable

(* buildPredicate: every filter key must be a column of the table, else   *)
(* KeyError; the clause is the conjunction of the equalities.             *)
args_to_clause(tbl, params) ==
    IF DOMAIN params \subseteq ColSet(tbl)
    THEN [ok |-> TRUE, clause |-> params]
    ELSE [ok |-> FALSE, clause |-> <<>>]

(* listTables *)
table_names(d) == SelectSeq(TableOrder, LAMBDA t : d[t].exists)

-----------------------------------------------------------------------------
(* The renderer, webstore.formats (not in web.py): modelled from the      *)
(* specification's Response Envelope.                                     *)

RequestFormat == "format of the request"
BuiltinFormat == "builtin format"     \* what the name `format` denotes
                                      \* inside _request_query

NoUrl == <<>>

(* url_for('read', database=database, table=table) *)
url_for(table) == <<"read", table>>

render_message(message, format, state, code, url) ==
    [kind |-> "message", state |-> state, code |-> code, message |-> message,
     url |-> url, columns |-> <<>>, rows |-> <<>>, format |-> format]

render_table(rows, columns, format) ==
    [kind |-> "table", state |-> "success", code |-> 200, message |-> "",
     url |-> NoUrl, columns |-> columns, rows |-> rows, format |-> format]

(* An exception that no handler catches leaves the handler unrendered.    *)
Fault(exception) ==
    [kind |-> "fault", state |-> "error", code |-> 500, message |-> exception,
     url |-> NoUrl, columns |-> <<>>, rows |-> <<>>, format |-> RequestFormat]

NoResponse ==
    [kind |-> "none", state |-> "", code |-> 0, message |-> "",
     url |-> NoUrl, columns |-> <<>>, rows |-> <<>>, format |-> RequestFormat]

-----------------------------------------------------------------------------
(* The SQL engine behind `_table.table.select(...)` and `bind.execute`.   *)

ComesBefore(r1, r2, order_by) ==
    \E k \in 1..Len(order_by) :
        /\ \A j \in 1..(k - 1) : r1[order_by[j][2]] = r2[order_by[j][2]]
        /\ \/ order_by[k][1] = "asc"  /\ r1[order_by[k][2]] < r2[order_by[k][2]]
           \/ order_by[k][1] = "desc" /\ r1[order_by[k][2]] > r2[order_by[k][2]]

RECURSIVE InsertSorted(_, _, _)
InsertSorted(r, sorted, order_by) ==
    IF sorted = <<>> THEN <<r>>
    ELSE IF ComesBefore(r, Head(sorted), order_by) THEN <<r>> \o sorted
    ELSE <<Head(sorted)>> \o InsertSorted(r, Tail(sorted), order_by)

RECURSIVE SortRows(_, _)
SortRows(rows, order_by) ==
    IF rows = <<>> THEN <<>>
    ELSE InsertSorted(rows[Len(rows)],
                      SortRows(SubSeq(rows, 1, Len(rows) - 1), order_by),
                      order_by)

Min(a, b) == IF a < b THEN a ELSE b

(* SELECT ... WHERE clause ORDER BY order_by LIMIT limit OFFSET offset.   *)
(* The engine raises OperationalError for an ORDER BY column the table    *)
(* lacks. A negative LIMIT or OFFSET is backend-dependent: a strict       *)
(* backend raises OperationalError, a lenient one (SQLite) reads a        *)
(* negative LIMIT as no limit and a negative OFFSET as 0.                 *)
execute_select(tbl, whereclause, args, strict) ==
    LET neg(o)   == o # None /\ o[1] < 0
        cs       == ColSet(tbl)
        badorder == \E k \in 1..Len(args.order_by) : args.order_by[k][2] \notin cs
        kept     == SelectSeq(tbl.rows,
                        LAMBDA r : \A c \in DOMAIN whereclause : r[c] = whereclause[c])
        sorted   == SortRows(kept, args.order_by)
        off      == IF args.offset = None \/ neg(args.offset) THEN 0 ELSE args.offset[1]
        last     == IF args.limit = None \/ neg(args.limit) THEN Len(sorted)
                    ELSE Min(Len(sorted), off + args.limit[1])
        page     == SubSeq(sorted, off + 1, last)
    IN  IF badorder \/ (strict /\ (neg(args.limit) \/ neg(args.offset)))
        THEN [ok |-> FALSE, keys |-> <<>>, rows |-> <<>>]
        ELSE [ok |-> TRUE, keys |-> tbl.columns,
              rows |-> [i \in 1..Len(page) |->
                          [k \in 1..Len(tbl.columns) |-> page[i][tbl.columns[k]]]]]

-----------------------------------------------------------------------------
(* web.py *)

(* dict(zip(keys, row)) *)
DictZip(keys, row) ==
    LET n == Min(Len(keys), Len(row))
    IN  [c \in {keys[i] : i \in 1..n} |-> row[CHOOSE i \in 1..n : keys[i] = c]]

RECURSIVE FetchLoop(_, _)
FetchLoop(keys, pending) ==
    IF pending = <<>> THEN <<>>                  \* fetchone() returned None
    ELSE <<DictZip(keys, Head(pending))>> \o FetchLoop(keys, Tail(pending))

(* A faulty variant: the first row is fetched before the loop and never  *)
(* yielded.                                                               *)
_result_proxy_iterator_skips_first(rp) ==
    IF rp.rows = <<>> THEN <<>> ELSE FetchLoop(rp.keys, Tail(rp.rows))

(* The rows a result proxy yields, each as a column -> value mapping.     *)
_result_proxy_iterator(rp) == FetchLoop(rp.keys, rp.rows)

(* The response a WebstoreException carries and get_response returns.     *)
WebstoreException(message, format, state, code, url) ==
    render_message(message, format, state, code, url)

(* Locate a named table or raise a 404. *)
_get_table(d, table) ==
    IF ~contains(d, table)
    THEN [raised |-> TRUE, db |-> d,
          resp |-> WebstoreException("No such table", RequestFormat, "error", 404, NoUrl)]
    ELSE [raised |-> FALSE, db |-> getitem(d, table), resp |-> NoResponse]

ASC  == <<"a", "s", "c">>
DESC == <<"d", "e", "s", "c">>

(* {'asc': asc, 'desc': desc}.get(order.lower(), 'asc'): the function asc *)
(* or desc, or else the string 'asc', which cannot be called.             *)
order_lookup(order) ==
    IF lower(order) = ASC THEN [callable |-> TRUE, name |-> "asc"]
    ELSE IF lower(order) = DESC THEN [callable |-> TRUE, name |-> "desc"]
    ELSE [callable |-> FALSE, name |-> "asc"]

(* The loop over params.poplist('_sort'). *)
RECURSIVE sort_loop(_, _)
sort_loop(pending, sorts) ==
    IF pending = <<>> THEN [raised |-> "none", sorts |-> sorts]
    ELSE IF ~HasColon(Head(pending))
    THEN [raised |-> "WebstoreException", sorts |-> sorts]
    ELSE LET sp    == split(Head(pending))
             order == order_lookup(sp.order)
         IN  IF ~order.callable
             THEN [raised |-> "TypeError", sorts |-> sorts]
             ELSE sort_loop(Tail(pending),
                            Append(sorts, <<order.name, sp.column>>))

NoArgs == [limit |-> None, offset |-> None, order_by |-> <<>>]

(* The control parameters popped and parsed; the remaining parameters     *)
(* and the arguments of the query.                                        *)
_request_query(params, queryargs) ==
    LET lim == IF params.limit # None THEN int(params.limit[1])
               ELSE [ok |-> TRUE, val |-> 0]
        off == IF params.offset # None THEN int(params.offset[1])
               ELSE [ok |-> TRUE, val |-> 0]
        srt == sort_loop(params.sort, <<>>)
        args == [limit    |-> IF params.limit # None THEN Some(lim.val) ELSE None,
                 offset   |-> IF params.offset # None THEN Some(off.val) ELSE None,
                 order_by |-> srt.sorts]
    IN  IF ~lim.ok \/ ~off.ok
        THEN [raised |-> "WebstoreException", params |-> <<>>, args |-> NoArgs,
              resp |-> WebstoreException("Invalid value", BuiltinFormat,
                                         "error", 400, NoUrl)]
        ELSE IF srt.raised = "WebstoreException"
        THEN [raised |-> "WebstoreException", params |-> <<>>, args |-> NoArgs,
              resp |-> WebstoreException("Invalid sorting format, use: order:column",
                                         BuiltinFormat, "error", 400, NoUrl)]
        ELSE IF srt.raised = "TypeError"
        THEN [raised |-> "TypeError", params |-> <<>>, args |-> NoArgs,
              resp |-> Fault("TypeError")]
        ELSE [raised |-> "none", params |-> params.filter,
              args |-> queryargs @@ args, resp |-> NoResponse]

(* The curried call to the database. *)
_query(tbl, whereclause, args, strict) ==
    LET results == execute_select(tbl, whereclause, args, strict)
    IN  IF ~results.ok
        THEN [raised |-> TRUE, results |-> results,
              resp |-> WebstoreException("Invalid query", BuiltinFormat,
                                         "error", 400, NoUrl)]
        ELSE [raised |-> FALSE, results |-> results, resp |-> NoResponse]

Out(d, response, calls) == [db |-> d, resp |-> response, trace |-> calls]

Rendered(response) ==
    IF response.kind = "table" THEN <<"render_table">> ELSE <<"render_message">>

(* Give a list of all tables in the database. *)
index(d) ==
    LET names  == table_names(d)
        tables == [i \in 1..Len(names) |->
                      [name |-> names[i], url |-> url_for(names[i])]]
        r      == render_table(tables, <<"name", "url", "columns">>, RequestFormat)
    IN  Out(d, r, <<Rendered(r)>>)

(* db.engine.execute(request.data): the statement's effect on the        *)
(* database and its result proxy, or the engine's error.                  *)
engine_execute(d, stmt) ==
    LET tbl == d[stmt.table]
    IN  CASE stmt.kind = "select" /\ tbl.exists ->
                [ok |-> TRUE, db |-> d, rowless |-> FALSE,
                 results |-> execute_select(tbl, <<>>, NoArgs, FALSE)]
          [] stmt.kind = "create table" /\ ~tbl.exists ->
                [ok |-> TRUE, rowless |-> TRUE,
                 db |-> [d EXCEPT ![stmt.table] =
                            [exists |-> TRUE, columns |-> ColumnOrder, rows |-> <<>>]],
                 results |-> [ok |-> TRUE, keys |-> <<>>, rows |-> <<>>]]
          [] stmt.kind = "drop table" /\ tbl.exists ->
                [ok |-> TRUE, rowless |-> TRUE,
                 db |-> [d EXCEPT ![stmt.table] = NoTable],
                 results |-> [ok |-> TRUE, keys |-> <<>>, rows |-> <<>>]]
          [] OTHER ->
                [ok |-> FALSE, db |-> d, rowless |-> TRUE,
                 results |-> [ok |-> FALSE, keys |-> <<>>, rows |-> <<>>]]

(* Execute an SQL statement on the database. Nothing catches the engine's *)
(* errors. Fetching from the result of a statement that returns no rows   *)
(* either ends at once or raises, depending on the library (closed).      *)
sql(d, content_type, stmt, closed) ==
    IF content_type # "text/sql"
    THEN LET r == WebstoreException("Only text/sql content is supported",
                                    RequestFormat, "error", 400, NoUrl)
         IN  Out(d, r, <<Rendered(r)>>)
    ELSE LET ex == engine_execute(d, stmt)
             r  == render_table(_result_proxy_iterator(ex.results),
                                ex.results.keys, RequestFormat)
         IN  IF ~ex.ok
             THEN Out(d, Fault("OperationalError"), <<<<"execute", stmt>>>>)
             ELSE IF ex.rowless /\ closed
             THEN Out(ex.db, Fault("ResourceClosedError"), <<<<"execute", stmt>>>>)
             ELSE Out(ex.db, r, <<<<"execute", stmt>>, Rendered(r)>>)

(* The loop `for row in reader` of create_named: the table and the        *)
(* gateway calls after the rows still pending.                            *)
RECURSIVE create_loop(_, _, _)
create_loop(tbl, pending, calls) ==
    IF pending = <<>> THEN [tbl |-> tbl, calls |-> calls]
    ELSE IF Cardinality(DOMAIN Head(pending)) # 0
    THEN create_loop(add_row(tbl, Head(pending)), Tail(pending),
                     Append(calls, <<"add_row", Head(pending)>>))
    ELSE create_loop(tbl, Tail(pending), calls)

(* A faulty variant: the existence check is missing. *)
create_named_unchecked(d, table, body) ==
    LET d1 == getitem(d, table)
        lp == create_loop(d1[table], body, <<>>)
        r  == render_message("Successfully created", RequestFormat,
                             "success", 201, url_for(table))
    IN  Out([d1 EXCEPT ![table] = lp.tbl], r,
            lp.calls \o <<<<"commit">>, Rendered(r)>>)

create_named(d, table, body) ==
    IF contains(d, table)
    THEN LET r == render_message("Table already exists", RequestFormat,
                                 "error", 409, url_for(table))
         IN  Out(d, r, <<Rendered(r)>>)
    ELSE LET d1 == getitem(d, table)
             lp == create_loop(d1[table], body, <<>>)
             r  == render_message("Successfully created", RequestFormat,
                                  "success", 201, url_for(table))
         IN  Out([d1 EXCEPT ![table] = lp.tbl], r,
                 lp.calls \o <<<<"commit">>, Rendered(r)>>)

(* A table name needs to specified either as a query argument or as part  *)
(* of the URL. This will forward to the URL variant.                      *)
create(d, args, body) ==
    IF args = None
    THEN LET r == render_message("Missing argument: table", RequestFormat,
                                 "error", 400, NoUrl)
         IN  Out(d, r, <<Rendered(r)>>)
    ELSE create_named(d, args[1], body)

read(d, table, params, strict) ==
    LET gt  == _get_table(d, table)
        tbl == gt.db[table]
        rq  == _request_query(params, <<>>)
        cl  == args_to_clause(tbl, rq.params)
        ke  == render_message("Invalid filter", RequestFormat, "error", 400, NoUrl)
        q   == _query(tbl, cl.clause, rq.args, strict)
        sel == <<"select", cl.clause, rq.args>>
        r   == render_table(_result_proxy_iterator(q.results), q.results.keys,
                            RequestFormat)
    IN  IF gt.raised THEN Out(d, gt.resp, <<Rendered(gt.resp)>>)
        ELSE IF rq.raised = "WebstoreException"
        THEN Out(gt.db, rq.resp, <<Rendered(rq.resp)>>)
        ELSE IF rq.raised = "TypeError" THEN Out(gt.db, rq.resp, <<>>)
        ELSE IF ~cl.ok THEN Out(gt.db, ke, <<Rendered(ke)>>)
        ELSE IF q.raised THEN Out(gt.db, q.resp, <<sel, Rendered(q.resp)>>)
        ELSE Out(gt.db, r, <<sel, Rendered(r)>>)

(* A faulty variant: ordinal 0 is not rejected. *)
row_without_zero_check(d, table, rowtext, params, strict) ==
    LET gt  == _get_table(d, table)
        tbl == gt.db[table]
        n   == int(rowtext)
        ve  == WebstoreException("Invalid row ID", RequestFormat, "error", 400, NoUrl)
        rq  == _request_query(params,
                              [limit |-> Some(1), offset |-> Some(n.val - 1)])
        q   == _query(tbl, <<>>, rq.args, strict)
        sel == <<"select", <<>>, rq.args>>
        r   == render_table(_result_proxy_iterator(q.results), q.results.keys,
                            RequestFormat)
    IN  IF gt.raised THEN Out(d, gt.resp, <<Rendered(gt.resp)>>)
        ELSE IF ~n.ok THEN Out(gt.db, ve, <<Rendered(ve)>>)
        ELSE IF rq.raised = "WebstoreException"
        THEN Out(gt.db, rq.resp, <<Rendered(rq.resp)>>)
        ELSE IF rq.raised = "TypeError" THEN Out(gt.db, rq.resp, <<>>)
        ELSE IF q.raised THEN Out(gt.db, q.resp, <<sel, Rendered(q.resp)>>)
        ELSE Out(gt.db, r, <<sel, Rendered(r)>>)

row(d, table, rowtext, params, strict) ==
    LET gt  == _get_table(d, table)
        tbl == gt.db[table]
        n   == int(rowtext)
        ve  == WebstoreException("Invalid row ID", RequestFormat, "error", 400, NoUrl)
        zero == WebstoreException("Starting at offset 1 to allow header row",
                                  RequestFormat, "error", 400, NoUrl)
        rq  == _request_query(params,
                              [limit |-> Some(1), offset |-> Some(n.val - 1)])
        q   == _query(tbl, <<>>, rq.args, strict)
        sel == <<"select", <<>>, rq.args>>
        r   == render_table(_result_proxy_iterator(q.results), q.results.keys,
                            RequestFormat)
    IN  IF gt.raised THEN Out(d, gt.resp, <<Rendered(gt.resp)>>)
        ELSE IF ~n.ok THEN Out(gt.db, ve, <<Rendered(ve)>>)
        ELSE IF n.val = 0 THEN Out(gt.db, zero, <<Rendered(zero)>>)
        ELSE IF rq.raised = "WebstoreException"
        THEN Out(gt.db, rq.resp, <<Rendered(rq.resp)>>)
        ELSE IF rq.raised = "TypeError" THEN Out(gt.db, rq.resp, <<>>)
        ELSE IF q.raised THEN Out(gt.db, q.resp, <<sel, Rendered(q.resp)>>)
        ELSE Out(gt.db, r, <<sel, Rendered(r)>>)

(* A faulty variant: commit() is called after every row, not once at the  *)
(* end.                                                                   *)
RECURSIVE update_loop_commits_each_row(_, _, _, _)
update_loop_commits_each_row(tbl, unique, pending, calls) ==
    IF pending = <<>> THEN [tbl |-> tbl, calls |-> calls]
    ELSE IF Cardinality(DOMAIN Head(pending)) = 0
    THEN update_loop_commits_each_row(tbl, unique, Tail(pending), calls)
    ELSE LET u == update_row(tbl, unique, Head(pending))
         IN  IF ~u.found
             THEN update_loop_commits_each_row(
                      add_row(tbl, Head(pending)), unique, Tail(pending),
                      calls \o <<<<"update_row", Head(pending), FALSE>>,
                                 <<"add_row", Head(pending)>>, <<"commit">>>>)
             ELSE update_loop_commits_each_row(
                      u.tbl, unique, Tail(pending),
                      calls \o <<<<"update_row", Head(pending), TRUE>>,
                                 <<"commit">>>>)

(* The loop `for row in reader` of update. *)
RECURSIVE update_loop(_, _, _, _)
update_loop(tbl, unique, pending, calls) ==
    IF pending = <<>> THEN [tbl |-> tbl, calls |-> calls]
    ELSE IF Cardinality(DOMAIN Head(pending)) = 0
    THEN update_loop(tbl, unique, Tail(pending), calls)
    ELSE LET u == update_row(tbl, unique, Head(pending))
         IN  IF ~u.found
             THEN update_loop(add_row(tbl, Head(pending)), unique, Tail(pending),
                              calls \o <<<<"update_row", Head(pending), FALSE>>,
                                         <<"add_row", Head(pending)>>>>)
             ELSE update_loop(u.tbl, unique, Tail(pending),
                              Append(calls, <<"update_row", Head(pending), TRUE>>))

(* A faulty variant: the result of update_row is ignored and every row is *)
(* added.                                                                 *)
RECURSIVE update_add_loop(_, _, _, _)
update_add_loop(tbl, unique, pending, calls) ==
    IF pending = <<>> THEN [tbl |-> tbl, calls |-> calls]
    ELSE IF Cardinality(DOMAIN Head(pending)) = 0
    THEN update_add_loop(tbl, unique, Tail(pending), calls)
    ELSE LET u == update_row(tbl, unique, Head(pending))
         IN  update_add_loop(add_row(u.tbl, Head(pending)), unique, Tail(pending),
                             calls \o <<<<"update_row", Head(pending), u.found>>,
                                        <<"add_row", Head(pending)>>>>)

update_always_adds(d, table, unique, body) ==
    LET gt == _get_table(d, table)
        lp == update_add_loop(gt.db[table], unique, body, <<>>)
        r  == render_message("Table updated", RequestFormat, "success", 201,
                             url_for(table))
    IN  IF gt.raised THEN Out(d, gt.resp, <<Rendered(gt.resp)>>)
        ELSE Out([gt.db EXCEPT ![table] = lp.tbl], r,
                 lp.calls \o <<<<"commit">>, Rendered(r)>>)

update(d, table, unique, body) ==
    LET gt == _get_table(d, table)
        lp == update_loop(gt.db[table], unique, body, <<>>)
        r  == render_message("Table updated", RequestFormat, "success", 201,
                             url_for(table))
    IN  IF gt.raised THEN Out(d, gt.resp, <<Rendered(gt.resp)>>)
        ELSE Out([gt.db EXCEPT ![table] = lp.tbl], r,
                 lp.calls \o <<<<"commit">>, Rendered(r)>>)

(* A faulty variant: the table is committed but never dropped. *)
delete_without_drop(d, table) ==
    LET gt == _get_table(d, table)
        r  == render_message("Table dropped", RequestFormat, "success", 410, NoUrl)
    IN  IF gt.raised THEN Out(d, gt.resp, <<Rendered(gt.resp)>>)
        ELSE Out(gt.db, r, <<<<"commit">>, Rendered(r)>>)

delete(d, table) ==
    LET gt == _get_table(d, table)
        r  == render_message("Table dropped", RequestFormat, "success", 410, NoUrl)
    IN  IF gt.raised THEN Out(d, gt.resp, <<Rendered(gt.resp)>>)
        ELSE Out([gt.db EXCEPT ![table] = drop(gt.db[table])], r,
                 <<<<"drop">>, <<"commit">>, Rendered(r)>>)

-----------------------------------------------------------------------------
(* Requests *)

NoParams == [limit |-> None, offset |-> None, sort |-> <<>>, filter |-> <<>>]

NoStmt == [kind |-> "", table |-> ""]

NoReq ==
    [op |-> "none", table |-> "", args |-> None, params |-> NoParams,
     rowtext |-> <<>>, body |-> <<>>, unique |-> {}, content_type |-> "",
     stmt |-> NoStmt]

(* Values of `_limit` and `_offset`: absent, or a text. *)
ControlTexts == {None, Some(<<"1">>), Some(<<"-", "1">>), Some(<<"x">>)}

SortAscA  == <<"a", "s", "c", ":", "a">>
SortDescB == <<"D", "E", "S", "C", ":", "b">>
SortUpA   == <<"u", "p", ":", "a">>
SortUpB   == <<"U", "p", ":", "b">>
SortBare  == <<"b">>
SortAscZ  == <<"A", "s", "c", ":", "z">>

(* Values of the repeatable `_sort`. *)
SortLists ==
    {<<>>, <<SortAscA>>, <<SortDescB>>, <<SortDescB, SortAscA>>, <<SortUpA>>,
     <<SortAscA, SortUpB>>, <<SortBare>>, <<SortAscZ>>, <<SortUpA, SortBare>>}

(* The remaining (filter) parameters. *)
Filters == {<<>>, (ColA :> 1), (ColZ :> 1)}

Params ==
    [limit : ControlTexts, offset : ControlTexts, sort : SortLists, filter : Filters]

(* Row ordinals as written in the URL. *)
RowTexts == {str(n) : n \in (0 - 1)..(MaxRows + 1)} \cup {<<"x">>}

Statements ==
    [kind : {"select", "create table", "drop table", "syntax error"},
     table : TableNames]

ContentTypes == {"text/sql", "text/csv"}

NoDrops == [t \in TableNames |-> "no"]

(* The history of deletions: a DELETE that succeeded marks the table      *)
(* "deleted", a create request that succeeded clears the mark, and an sql *)
(* request that creates a deleted table marks it "recreated by sql".      *)
NextDropped(request, d, out) ==
    [t \in TableNames |->
        IF request.op = "delete" /\ request.table = t /\ out.resp.code = 410
        THEN "deleted"
        ELSE IF request.op \in {"create", "create_named"} /\ request.table = t
                /\ out.resp.code = 201
        THEN "no"
        ELSE IF request.op = "sql" /\ request.stmt.table = t /\ ~d[t].exists
                /\ out.db[t].exists /\ dropped[t] = "deleted"
        THEN "recreated by sql"
        ELSE dropped[t]]

(* The body a table was created from: recorded when a create request    *)
(* succeeds, forgotten as soon as a later request changes the table.      *)
NonEmpty(body) == SelectSeq(body, LAMBDA r : DOMAIN r # {})

NextCreated(request, d, out) ==
    [t \in TableNames |->
        IF request.op \in {"create", "create_named"} /\ request.table = t
           /\ out.resp.code = 201
        THEN Some([rows |-> NonEmpty(request.body),
                   blank |-> \E i \in 1..Len(request.body) :
                                 DOMAIN request.body[i] = {}])
        ELSE IF out.db[t] # d[t] THEN None
        ELSE created[t]]

-----------------------------------------------------------------------------
(* Requests handled one after another *)

Handle(request, outcome) ==
  \E out \in {outcome} :
    /\ \A t \in TableNames : Len(out.db[t].rows) <= MaxRows
    /\ pc' = "done"
    /\ req' = request
    /\ db' = out.db
    /\ resp' = out.resp
    /\ trace' = out.trace
    /\ before' = db
    /\ dropped' = NextDropped(request, db, out)
    /\ created' = NextCreated(request, db, out)
    /\ UNCHANGED <<cpc, creq, cidx, cresp>>

IndexRequest ==
    /\ pc = "idle"
    /\ Handle([NoReq EXCEPT !.op = "index"], index(db))

SqlRequest ==
    /\ pc = "idle"
    /\ \E ct \in ContentTypes, stmt \in Statements, closed \in BOOLEAN :
           Handle([NoReq EXCEPT !.op = "sql", !.content_type = ct, !.stmt = stmt],
                  sql(db, ct, stmt, closed))

CreateRequest ==
    /\ pc = "idle"
    /\ \E args \in {None} \cup {Some(t) : t \in TableNames}, body \in Bodies :
           Handle([NoReq EXCEPT !.op = "create", !.args = args, !.body = body,
                                !.table = IF args = None THEN "" ELSE args[1]],
                  create(db, args, body))

CreateNamedRequest ==
    /\ pc = "idle"
    /\ \E table \in TableNames, body \in Bodies :
           Handle([NoReq EXCEPT !.op = "create_named", !.table = table, !.body = body],
                  create_named(db, table, body))

ReadRequest ==
    /\ pc = "idle"
    /\ \E table \in TableNames, params \in Params, strict \in BOOLEAN :
           Handle([NoReq EXCEPT !.op = "read", !.table = table, !.params = params],
                  read(db, table, params, strict))

RowRequest ==
    /\ pc = "idle"
    /\ \E table \in TableNames, rowtext \in RowTexts, params \in Params,
          strict \in BOOLEAN :
           Handle([NoReq EXCEPT !.op = "row", !.table = table, !.rowtext = rowtext,
                                !.params = params],
                  row(db, table, rowtext, params, strict))

UpdateRequest ==
    /\ pc = "idle"
    /\ \E table \in TableNames, unique \in SUBSET Columns, body \in Bodies :
           Handle([NoReq EXCEPT !.op = "update", !.table = table, !.unique = unique,
                                !.body = body],
                  update(db, table, unique, body))

DeleteRequest ==
    /\ pc = "idle"
    /\ \E table \in TableNames :
           Handle([NoReq EXCEPT !.op = "delete", !.table = table], delete(db, table))

(* The response has been returned: the request's scope ends.              *)
EndRequest ==
    /\ pc = "done"
    /\ pc' = "idle"
    /\ req' = NoReq
    /\ resp' = NoResponse
    /\ trace' = <<>>
    /\ before' = db
    /\ UNCHANGED <<db, dropped, created, cpc, creq, cidx, cresp>>

Procs == {1, 2}

Init ==
    /\ db = [t \in TableNames |-> NoTable]
    /\ pc = "idle"
    /\ req = NoReq
    /\ resp = NoResponse
    /\ trace = <<>>
    /\ before = [t \in TableNames |-> NoTable]
    /\ dropped = NoDrops
    /\ created = [t \in TableNames |-> None]
    /\ cpc = [p \in Procs |-> "start"]
    /\ creq = [p \in Procs |-> NoReq]
    /\ cidx = [p \in Procs |-> 0]
    /\ cresp = [p \in Procs |-> NoResponse]

Next ==
    \/ CreateNamedRequest
    \/ CreateRequest
    \/ IndexRequest
    \/ SqlRequest
    \/ ReadRequest
    \/ RowRequest
    \/ UpdateRequest
    \/ DeleteRequest
    \/ EndRequest

Spec == Init /\ [][Next]_vars

-----------------------------------------------------------------------------
(* Two create_named requests running concurrently: each process takes the *)
(* steps of create_named one at a time, interleaved with the other's.     *)

(* The request arrives. *)
CBegin(p) ==
    /\ cpc[p] = "start"
    /\ \E table \in TableNames, body \in Bodies :
           creq' = [creq EXCEPT ![p] =
                       [NoReq EXCEPT !.op = "create_named", !.table = table,
                                     !.body = body]]
    /\ cpc' = [cpc EXCEPT ![p] = "check"]
    /\ UNCHANGED <<db, pc, req, resp, trace, before, dropped, created, cidx, cresp>>

(* `if table in db: return render_message(... code=409 ...)` *)
CCheck(p) ==
    /\ cpc[p] = "check"
    /\ IF contains(db, creq[p].table)
       THEN /\ cresp' = [cresp EXCEPT ![p] =
                            render_message("Table already exists", RequestFormat,
                                           "error", 409, url_for(creq[p].table))]
            /\ cpc' = [cpc EXCEPT ![p] = "done"]
       ELSE /\ cpc' = [cpc EXCEPT ![p] = "getitem"]
            /\ UNCHANGED cresp
    /\ UNCHANGED <<db, pc, req, resp, trace, before, dropped, created, creq, cidx>>

(* `_table = db[table]` *)
CGetItem(p) ==
    /\ cpc[p] = "getitem"
    /\ db' = getitem(db, creq[p].table)
    /\ cpc' = [cpc EXCEPT ![p] = "loop"]
    /\ UNCHANGED <<pc, req, resp, trace, before, dropped, created, creq, cidx, cresp>>

(* One turn of `for row in reader: if len(row.keys()): _table.add_row(row)` *)
CRow(p) ==
    /\ cpc[p] = "loop"
    /\ cidx[p] < Len(creq[p].body)
    /\ LET r == creq[p].body[cidx[p] + 1]
       IN  db' = IF Cardinality(DOMAIN r) # 0
                 THEN [db EXCEPT ![creq[p].table] = add_row(@, r)]
                 ELSE db
    /\ cidx' = [cidx EXCEPT ![p] = @ + 1]
    /\ UNCHANGED <<pc, req, resp, trace, before, dropped, created, cpc, creq, cresp>>

(* `_table.commit()` once the reader is exhausted *)
CCommit(p) ==
    /\ cpc[p] = "loop"
    /\ cidx[p] = Len(creq[p].body)
    /\ cpc' = [cpc EXCEPT ![p] = "respond"]
    /\ UNCHANGED <<db, pc, req, resp, trace, before, dropped, created, creq, cidx, cresp>>

(* `return render_message(... code=201 ...)` *)
CRespond(p) ==
    /\ cpc[p] = "respond"
    /\ cresp' = [cresp EXCEPT ![p] =
                    render_message("Successfully created", RequestFormat,
                                   "success", 201, url_for(creq[p].table))]
    /\ cpc' = [cpc EXCEPT ![p] = "done"]
    /\ UNCHANGED <<db, pc, req, resp, trace, before, dropped, created, creq, cidx>>

ConcNext ==
    \E p \in Procs :
        \/ CBegin(p)
        \/ CCheck(p)
        \/ CGetItem(p)
        \/ CRow(p)
        \/ CCommit(p)
        \/ CRespond(p)

ConcSpec == Init /\ [][ConcNext]_vars

-----------------------------------------------------------------------------
(* Properties *)

Done(ops) == pc = "done" /\ req.op \in ops

Calls(op) == {i \in 1..Len(trace) : trace[i][1] = op}

IsError(code) ==
    resp.kind = "message" /\ resp.state = "error" /\ resp.code = code

(* The request got past _get_table and, on the row endpoint, past the     *)
(* ordinal checks: _request_query is called.                              *)
ReachesTranslator ==
    /\ Done({"read", "row"})
    /\ before[req.table].exists
    /\ req.op = "row" => int(req.rowtext).ok /\ int(req.rowtext).val # 0

(* C1: a create request (by URL table name or by the `table` query        *)
(* argument) naming a table that already exists responds with state       *)
(* error, code 409 and the URL of that table's read endpoint, and leaves  *)
(* the database as it was: no add_row and no commit is issued.            *)
C1_CreateExistingIs409 ==
    (Done({"create", "create_named"}) /\ req.table \in TableNames
        /\ before[req.table].exists)
    => /\ IsError(409)
       /\ resp.url = url_for(req.table)
       /\ db = before
       /\ Calls("add_row") = {} /\ Calls("commit") = {}

C1_Witness ==
    /\ Done({"create"})
    /\ req.args # None
    /\ before[req.table].exists /\ Len(before[req.table].rows) > 0
    /\ NonEmpty(req.body) # <<>>
    /\ resp.code = 409

(* C2 as stated: once a DELETE request on an existing table has           *)
(* completed, every later read of the table or of one of its rows is      *)
(* answered 404 until a create request for that name succeeds.            *)
C2_ReadAfterDeleteIs404UntilCreate ==
    (Done({"read", "row"}) /\ dropped[req.table] # "no") => IsError(404)

(* C2 as amended: ... until a create request for that name succeeds or an *)
(* sql request creates a table of that name.                              *)
C2_ReadAfterDeleteIs404 ==
    (Done({"read", "row"}) /\ dropped[req.table] = "deleted") => IsError(404)

C2_Witness ==
    /\ Done({"row"})
    /\ dropped[req.table] = "deleted"
    /\ req.params.limit # None /\ req.params.sort # <<>>
    /\ resp.code = 404

(* The unique-column key of a row, when the row has a value in each.      *)
HasKey(r, U) == \A c \in U : c \in DOMAIN r /\ r[c] # NULL

Key(r, U) == [c \in U |-> r[c]]

StoredKeys(rows, U) ==
    {Key(rows[i], U) : i \in {j \in 1..Len(rows) : HasKey(rows[j], U)}}

(* How many of the pending rows find no row with their key, given the     *)
(* keys present so far.                                                   *)
RECURSIVE InsertCount(_, _, _)
InsertCount(keys, pending, U) ==
    IF pending = <<>> THEN 0
    ELSE IF HasKey(Head(pending), U) /\ Key(Head(pending), U) \in keys
    THEN InsertCount(keys, Tail(pending), U)
    ELSE 1 + InsertCount(IF HasKey(Head(pending), U)
                         THEN keys \cup {Key(Head(pending), U)} ELSE keys,
                         Tail(pending), U)

(* C3: in an update request on an existing table with a non-empty set U   *)
(* of unique columns, every non-empty body row is either an update (a row *)
(* agreeing with it on U exists: the other columns are updated, the row   *)
(* count is unchanged) or an insert (row count + 1), never both, never    *)
(* neither.                                                               *)
C3_UpsertUpdatesOrInserts ==
    (Done({"update"}) /\ before[req.table].exists /\ req.unique # {})
    => LET U   == req.unique
           NE  == NonEmpty(req.body)
           old == before[req.table].rows
           new == db[req.table].rows
           ups == Calls("update_row")
       IN  /\ resp.kind = "message" /\ resp.code = 201
           \* one update_row per non-empty body row; add_row exactly when it found nothing
           /\ Cardinality(ups) = Len(NE)
           /\ \A i \in ups :
                 IF trace[i][3]
                 THEN trace[i + 1][1] # "add_row"
                 ELSE trace[i + 1] = <<"add_row", trace[i][2]>>
           /\ \A i \in Calls("add_row") :
                 i > 1 /\ trace[i - 1] = <<"update_row", trace[i][2], FALSE>>
           \* the row count grows by the number of rows that find no key
           /\ Len(new) = Len(old) + InsertCount(StoredKeys(old, U), NE, U)
           /\ Cardinality(Calls("add_row")) = Len(new) - Len(old)
           \* the rows with the key of a body row carry its other columns
           /\ \A i \in 1..Len(NE) : HasKey(NE[i], U) =>
                 /\ \E k \in 1..Len(new) :
                        HasKey(new[k], U) /\ Key(new[k], U) = Key(NE[i], U)
                 /\ \A c \in (DOMAIN NE[i]) \ U :
                        (\A j \in (i + 1)..Len(NE) :
                            ~(HasKey(NE[j], U) /\ Key(NE[j], U) = Key(NE[i], U)
                              /\ c \in DOMAIN NE[j]))
                        => \A k \in 1..Len(new) :
                              (HasKey(new[k], U) /\ Key(new[k], U) = Key(NE[i], U))
                              => new[k][c] = NE[i][c]
           \* the other rows are untouched
           /\ \A k \in 1..Len(old) :
                 (~\E i \in 1..Len(NE) :
                       HasKey(NE[i], U) /\ HasKey(old[k], U)
                       /\ Key(NE[i], U) = Key(old[k], U))
                 => new[k] = Pad(old[k], ColSet(db[req.table]))

C3_Witness ==
    /\ Done({"update"})
    /\ before[req.table].exists /\ req.unique = {ColA}
    /\ \E i \in Calls("update_row") : trace[i][3]
    /\ \E i \in Calls("update_row") : ~trace[i][3]
    /\ \E k \in 1..Len(before[req.table].rows) :
          db[req.table].rows[k] # Pad(before[req.table].rows[k], ColSet(db[req.table]))
    /\ Len(db[req.table].rows) = Len(before[req.table].rows) + 1

ControlParses(o) == o = None \/ int(o[1]).ok

SortRecognised(srt) == HasColon(srt) /\ lower(split(srt).order) \in {ASC, DESC}

(* The query parameters _request_query and the engine accept for a table. *)
ParamsAccepted(params, tbl) ==
    /\ ControlParses(params.limit) /\ ControlParses(params.offset)
    /\ \A k \in 1..Len(params.sort) :
          SortRecognised(params.sort[k]) /\ split(params.sort[k]).column \in ColSet(tbl)

ZeroRows == resp.kind = "table" /\ resp.code = 200 /\ resp.rows = <<>>

(* C4 as stated: for every table and query parameters, ordinal 0 fails    *)
(* with 400, and ordinal N > M on a table of M rows gives a successful    *)
(* payload of zero rows.                                                  *)
C4_RowZeroIs400AndBeyondIsEmpty ==
    (Done({"row"}) /\ int(req.rowtext).ok)
    => /\ int(req.rowtext).val = 0 => IsError(400)
       /\ (before[req.table].exists
              /\ int(req.rowtext).val > Len(before[req.table].rows)) => ZeroRows

(* C4 as amended: on a missing table the row endpoint answers 404; on an  *)
(* existing table ordinal 0 fails with 400 whatever the query parameters, *)
(* and ordinal N > M gives a successful payload of zero rows when the     *)
(* query parameters are accepted (`_limit`/`_offset` absent or integer    *)
(* texts, every `_sort` value asc: or desc: of a column of the table).    *)
C4_RowOrdinalOnExistingTable ==
    (Done({"row"}) /\ int(req.rowtext).ok)
    => /\ ~before[req.table].exists => IsError(404)
       /\ (before[req.table].exists /\ int(req.rowtext).val = 0)
             => IsError(400) /\ resp.message = "Starting at offset 1 to allow header row"
       /\ (before[req.table].exists
              /\ int(req.rowtext).val > Len(before[req.table].rows)
              /\ ParamsAccepted(req.params, before[req.table])) => ZeroRows

C4_Witness ==
    /\ Done({"row"})
    /\ before[req.table].exists /\ Len(before[req.table].rows) > 0
    /\ int(req.rowtext).ok
    /\ int(req.rowtext).val = Len(before[req.table].rows) + 1
    /\ req.params.sort # <<>> /\ req.params.limit # None
    /\ ZeroRows
    /\ resp.columns = before[req.table].columns

NonNegativeIntegerText(s) == s # <<>> /\ \A i \in 1..Len(s) : IsDigit(s[i])

BadControl(o) == o # None /\ ~NonNegativeIntegerText(o[1])

(* C5: whenever `_limit` or `_offset` is present and is not the text of   *)
(* an integer >= 0, the request fails with 400 and no query is executed.  *)
C5_NegativeControlIs400 ==
    (ReachesTranslator /\ (BadControl(req.params.limit) \/ BadControl(req.params.offset)))
    => IsError(400) /\ Calls("select") = {}

Unrecognised(srt) == HasColon(srt) /\ lower(split(srt).order) \notin {ASC, DESC}

(* C6: a `_sort` value whose direction is neither asc nor desc is treated *)
(* as ascending: translation completes without error and the sort         *)
(* specification has an ascending entry for its column at its position.   *)
C6_UnknownDirectionIsAscending ==
    (/\ ReachesTranslator
     /\ ControlParses(req.params.limit) /\ ControlParses(req.params.offset)
     /\ DOMAIN req.params.filter \subseteq ColSet(before[req.table])
     /\ \A k \in 1..Len(req.params.sort) : HasColon(req.params.sort[k])
     /\ \E k \in 1..Len(req.params.sort) : Unrecognised(req.params.sort[k]))
    => /\ resp.kind # "fault"
       /\ \E i \in Calls("select") :
             /\ Len(trace[i][3].order_by) = Len(req.params.sort)
             /\ \A k \in 1..Len(req.params.sort) :
                   Unrecognised(req.params.sort[k])
                   => trace[i][3].order_by[k] = <<"asc", split(req.params.sort[k]).column>>

(* C7: every request to every endpoint ends by returning a rendered       *)
(* envelope, a table payload or a message; no exception escapes.          *)
C7_EveryRequestIsRendered ==
    pc = "done"
    => /\ resp.kind \in {"table", "message"}
       /\ trace # <<>> /\ trace[Len(trace)] = Rendered(resp)

(* C8: in every create or update request that succeeds, the non-empty     *)
(* body rows are written one at a time in input order, then commit() is   *)
(* called exactly once, then the response is rendered.                    *)
C8_WritesThenOneCommit ==
    (Done({"create", "create_named", "update"}) /\ resp.state = "success")
    => LET n      == Len(trace)
           NE     == NonEmpty(req.body)
           wop    == IF req.op = "update" THEN "update_row" ELSE "add_row"
           writes == SelectSeq(trace, LAMBDA e : e[1] = wop)
       IN  /\ n >= 2
           /\ trace[n][1] = "render_message"
           /\ trace[n - 1][1] = "commit"
           /\ Calls("commit") = {n - 1}
           /\ \A i \in 1..(n - 2) : trace[i][1] \in {"add_row", "update_row"}
           /\ req.op # "update" => Calls("update_row") = {}
           /\ Len(writes) = Len(NE)
           /\ \A i \in 1..Len(NE) : writes[i][2] = NE[i]
           /\ \A i \in Calls("add_row") :
                 req.op = "update" => i > 1 /\ trace[i - 1][1] = "update_row"
                                      /\ trace[i - 1][2] = trace[i][2]
           /\ req.op # "update" =>
                 /\ Len(db[req.table].rows) = Len(NE)
                 /\ \A i \in 1..Len(NE) : \A c \in DOMAIN NE[i] :
                       db[req.table].rows[i][c] = NE[i][c]

C8_Witness ==
    /\ Done({"update"}) /\ resp.state = "success"
    /\ Len(NonEmpty(req.body)) = 2 /\ Len(req.body) > 2
    /\ req.body[1] # req.body[Len(req.body)]
    /\ Cardinality(Calls("add_row")) = 1
    /\ Len(trace) = 5

(* C9: after a create request with body R succeeded on an absent table, a *)
(* read with no filter and no control parameters returns the column set   *)
(* of R and, for every non-empty row of R, in order, a row with equal     *)
(* values; empty rows contribute nothing (the payload has exactly as many *)
(* rows as R has non-empty ones), and each stored row is yielded exactly  *)
(* once as a full column -> value mapping.                                *)
C9_CreateThenReadRoundTrip ==
    (Done({"read"}) /\ req.params = NoParams /\ created[req.table] # None)
    => LET NE   == created[req.table][1].rows
           cols == {resp.columns[i] : i \in 1..Len(resp.columns)}
       IN  /\ resp.kind = "table" /\ resp.code = 200
           /\ cols = UNION {DOMAIN NE[i] : i \in 1..Len(NE)}
           /\ Len(resp.columns) = Cardinality(cols)
           /\ Len(resp.rows) = Len(NE)
           /\ \A i \in 1..Len(NE) :
                 /\ DOMAIN resp.rows[i] = cols
                 /\ \A c \in cols :
                       resp.rows[i][c] = IF c \in DOMAIN NE[i] THEN NE[i][c] ELSE NULL
           /\ resp.rows = db[req.table].rows

C9_Witness ==
    /\ Done({"read"}) /\ req.params = NoParams
    /\ created[req.table] # None
    /\ created[req.table][1].blank
    /\ Len(resp.rows) = 2
    /\ DOMAIN created[req.table][1].rows[1] # DOMAIN created[req.table][1].rows[2]
    /\ resp.kind = "table" /\ Len(resp.columns) = 2

(* C10: when two create requests for the same table run concurrently, at  *)
(* most one responds 201 and the other responds 409; the table never      *)
(* holds rows from both bodies.                                           *)
C10_ConcurrentCreatesExclude ==
    (/\ \A p \in Procs : cpc[p] = "done"
     /\ creq[1].table = creq[2].table)
    => /\ Cardinality({p \in Procs : cresp[p].code = 201}) <= 1
       /\ \E p \in Procs : cresp[p].code = 409
       /\ \E p \in Procs :
             Len(db[creq[1].table].rows) <= Len(NonEmpty(creq[p].body))

=============================================================================
